---- MODULE Spec2Model ----
(***************************************************************************)
(* Graph construction for Argo CD resources (pkg/graph/argocd.go): the     *)
(* kind dispatcher, the Application / ApplicationSet / AppProject          *)
(* resolvers and the concurrent object harvest they run against the        *)
(* cluster.                                                                *)
(*                                                                         *)
(* Strings that the code inspects character-wise (names, tracking ids,     *)
(* apiVersion) are tuples of tokens, so that strings.HasPrefix and the     *)
(* group/version parsing are computed, not assumed.                        *)
(***************************************************************************)
EXTENDS Naturals, Sequences, FiniteSets, TLC

\* ------------------------------------------------------------ bounds

\* deepest call stack of resolvers the model follows; a call beyond it stands
\* for the Go runtime's stack exhaustion (fatal error: stack overflow)
MaxDepth == 3
\* how many transport faults (a failed catalog query or a failed list call)
\* one run may inject
MaxFaults == 1

\* ------------------------------------------------------------ strings

ArgoAPIVersion == <<"argoproj.io", "/", "v1alpha1">>
CoreAPIVersion == <<"v1">>

\* strings.HasPrefix(s, prefix)
HasPrefix(s, prefix) ==
    /\ Len(s) >= Len(prefix)
    /\ SubSeq(s, 1, Len(prefix)) = prefix

\* fmt.Sprintf("%s:", app.GetName())
TrackingPrefix(name) == name \o <<":">>

\* schema.FromAPIVersionAndKind(...).GroupVersion(): "v1" has the empty
\* group, "g/v" splits at the slash
GroupVersion(apiVersion) ==
    IF \E i \in 1..Len(apiVersion) : apiVersion[i] = "/"
    THEN LET i == CHOOSE j \in 1..Len(apiVersion) : apiVersion[j] = "/"
         IN  [group |-> SubSeq(apiVersion, 1, i - 1),
              version |-> SubSeq(apiVersion, i + 1, Len(apiVersion))]
    ELSE [group |-> <<>>, version |-> apiVersion]

\* gv.WithResource(api.Name)
WithResource(gv, resource) ==
    [group |-> gv.group, version |-> gv.version, resource |-> resource]

\* ------------------------------------------------------------ the cluster

\* spec.project of an Application as fields["spec"]...["project"] finds it
ProjectNamed(name) == [present |-> TRUE, isString |-> TRUE, val |-> name]
ProjectMissing == [present |-> FALSE, isString |-> FALSE, val |-> <<>>]
ProjectNotAString == [present |-> TRUE, isString |-> FALSE, val |-> <<>>]

\* an unstructured.Unstructured: ann and lbl hold the value of the
\* tracking-id annotation and of the instance label ({} when the key is
\* absent), owners the UIDs of metadata.ownerReferences in order
Object(kind, apiVersion, name, ns, ann, lbl, owners, uid, project) ==
    [kind |-> kind, apiVersion |-> apiVersion, name |-> name, ns |-> ns,
     ann |-> ann, lbl |-> lbl, owners |-> owners, uid |-> uid,
     project |-> project]

Ids == {"a", "ab", "set1", "p", "cm1", "sec1", "ev1"}

\* the node handle of "no node"
Nil == "nil"

NameA == <<"a">>
NameAB == <<"a", "b">>
NameSet == <<"s">>
TrackA == <<"a", ":", "x">>
TrackAB == <<"a", "b", ":", "x">>

\* the cluster every scenario starts from: Application a (project p) and
\* Application ab, ApplicationSet set1, AppProject p, ConfigMap cm1 and
\* Secret sec1 in ns1, and an Event that carries a's instance label
Base ==
    [aProject |-> ProjectNamed(<<"p">>), abProject |-> ProjectNamed(<<"p">>),
     aLbl |-> {}, abLbl |-> {}, abOwners |-> <<>>, pLbl |-> {}, pNs |-> "argocd",
     cm1Ann |-> {}, cm1Lbl |-> {}, cm1Ns |-> "ns1", sec1Ns |-> "ns1"]

\* the clusters the initial states draw from
Scenarios ==
    { Base,
      \* tracked by label, by annotation, by both; a longer name's prefix
      [Base EXCEPT !.cm1Lbl = {NameA}],
      [Base EXCEPT !.cm1Ann = {TrackA}],
      [Base EXCEPT !.cm1Ann = {TrackA}, !.cm1Lbl = {NameA}],
      [Base EXCEPT !.cm1Ann = {TrackAB}],
      [Base EXCEPT !.cm1Lbl = {NameAB}],
      \* a tracked object without a namespace, a neighbour in another one
      [Base EXCEPT !.cm1Lbl = {NameA}, !.cm1Ns = ""],
      [Base EXCEPT !.cm1Ann = {TrackA}, !.sec1Ns = "ns2"],
      \* spec.project: no such project, missing, not a string
      [Base EXCEPT !.aProject = ProjectNamed(<<"q">>)],
      [Base EXCEPT !.aProject = ProjectMissing],
      [Base EXCEPT !.aProject = ProjectNotAString],
      \* a project that carries the instance label
      [Base EXCEPT !.pLbl = {NameA}, !.pNs = ""],
      [Base EXCEPT !.pLbl = {NameA}, !.pNs = "", !.aProject = ProjectNamed(<<"q">>)],
      \* an application tracked by another one (app of apps)
      [Base EXCEPT !.abLbl = {NameA}],
      [Base EXCEPT !.abLbl = {NameA}, !.cm1Ann = {TrackAB}],
      [Base EXCEPT !.abLbl = {NameA}, !.abProject = ProjectMissing],
      \* two applications that track each other
      [Base EXCEPT !.abLbl = {NameA}, !.aLbl = {NameAB}],
      \* a tracked object in the application's own namespace
      [Base EXCEPT !.cm1Lbl = {NameA}, !.cm1Ns = "argocd"],
      \* owner references to the ApplicationSet
      [Base EXCEPT !.abOwners = <<"u1">>],
      [Base EXCEPT !.abOwners = <<"u2">>],
      [Base EXCEPT !.abOwners = <<"u2", "u1">>],
      [Base EXCEPT !.abOwners = <<"u1", "u1">>],
      [Base EXCEPT !.abOwners = <<"u1">>, !.aLbl = {NameSet}],
      [Base EXCEPT !.abOwners = <<"u1">>, !.abProject = ProjectMissing],
      [Base EXCEPT !.abOwners = <<"u1">>, !.cm1Ann = {TrackAB}],
      \* an application owned twice, with tracked objects of its own
      [Base EXCEPT !.abOwners = <<"u1", "u1">>, !.cm1Ann = {TrackAB}],
      \* a tracked object and an unrelated project, neither in a namespace
      [Base EXCEPT !.cm1Lbl = {NameA}, !.cm1Ns = "", !.pNs = "",
                   !.aProject = ProjectNamed(<<"q">>)] }

Cluster(d) ==
    [id \in Ids |->
        CASE id = "a" ->
               Object("Application", ArgoAPIVersion, NameA, "argocd",
                      {}, d.aLbl, <<>>, "ua", d.aProject)
          [] id = "ab" ->
               Object("Application", ArgoAPIVersion, NameAB, "apps",
                      {}, d.abLbl, d.abOwners, "uab", d.abProject)
          [] id = "set1" ->
               Object("ApplicationSet", ArgoAPIVersion, NameSet, "argocd",
                      {}, {}, <<>>, "u1", ProjectMissing)
          [] id = "p" ->
               Object("AppProject", ArgoAPIVersion, <<"p">>, d.pNs,
                      {}, d.pLbl, <<>>, "up", ProjectMissing)
          [] id = "cm1" ->
               Object("ConfigMap", CoreAPIVersion, <<"c", "1">>, d.cm1Ns,
                      d.cm1Ann, d.cm1Lbl, <<>>, "uc1", ProjectMissing)
          [] id = "sec1" ->
               Object("Secret", CoreAPIVersion, <<"c", "2">>, d.sec1Ns,
                      {}, {}, <<>>, "uc2", ProjectMissing)
          [] id = "ev1" ->
               Object("Event", CoreAPIVersion, <<"e", "1">>, "ns1",
                      {}, {NameA}, <<>>, "ue1", ProjectMissing)]

Clusters == {Cluster(d) : d \in Scenarios}

\* one APIResource of a catalog entry: its list-able name and its kind
API(name, kind) == [name |-> name, kind |-> kind]

\* discovery's ServerPreferredResources(): one APIResourceList per
\* group/version, each with its resources
Catalog ==
    << [groupVersion |-> CoreAPIVersion,
        apis |-> << API("configmaps", "ConfigMap"), API("events", "Event"),
                    API("secrets", "Secret") >>],
       [groupVersion |-> ArgoAPIVersion,
        apis |-> << API("applications", "Application"),
                    API("appprojects", "AppProject") >>] >>

\* the resource name the API server serves a kind under
Plural(kind) ==
    CASE kind = "Application" -> "applications"
      [] kind = "ApplicationSet" -> "applicationsets"
      [] kind = "AppProject" -> "appprojects"
      [] kind = "ConfigMap" -> "configmaps"
      [] kind = "Secret" -> "secrets"
      [] kind = "Event" -> "events"

\* ------------------------------------------------------------ state

VARIABLES
    cluster,    \* the objects the API server holds, by id
    root,       \* the object the caller hands to Unstructured
    phase,      \* "init", "running", "returned", "panicked", "overflow"
    stack,      \* the resolver calls in progress, innermost last
    ret,        \* (node, err) of the call that returned last
    last,       \* what the call that returned last had harvested and why it ended
    nodes,      \* the graph's nodes
    edges,      \* the graph's relationships <<from, label, to>>
    hpc,        \* where the harvest of the innermost call stands
    gi,         \* getAllObjects: index of the catalog entry being listed
    ai,         \* getAllObjects: index of the next resource of that entry
    task,       \* every getObjectsForAResource invocation of the harvest
    lock,       \* the mutex of each catalog entry (0: getChildApplications')
    results,    \* the results map of each catalog entry (0: getChildApplications')
    wg,         \* the WaitGroup counter
    objs,       \* getAllObjects' objs slice so far
    faults      \* transport faults injected so far

vars == <<cluster, root, phase, stack, ret, last, nodes, edges,
          hpc, gi, ai, task, lock, results, wg, objs, faults>>

graphVars == <<nodes, edges>>
harvestVars == <<hpc, gi, ai, task, lock, results, wg, objs, faults>>
inputVars == <<cluster, root>>

NoErr == "nil"
DiscoveryFailure == "DiscoveryFailure"
ListFailure == "ListFailure"

\* a mutex nobody holds
Free == <<>>

Groups == 0..Len(Catalog)
TaskIds ==
    {<<0, 1>>} \cup UNION {{<<g, i>> : i \in 1..Len(Catalog[g].apis)} : g \in 1..Len(Catalog)}
NoTask == [pc |-> "none", gvr |-> WithResource(GroupVersion(<<>>), ""),
           err |-> FALSE, res |-> {}]

\* GVRString, had the key left the resource out
GVRString_WithoutResource(gvr) ==
    gvr.group \o <<"/">> \o gvr.version

\* gvr.String()
GVRString(gvr) ==
    gvr.group \o <<"/">> \o gvr.version \o <<", Resource=">> \o <<gvr.resource>>

\* what the API server returns for Resource(gvr).List
ServerList(gvr) ==
    {id \in Ids : /\ GroupVersion(cluster[id].apiVersion).group = gvr.group
                  /\ GroupVersion(cluster[id].apiVersion).version = gvr.version
                  /\ Plural(cluster[id].kind) = gvr.resource}

\* results[key] = value
MapPut(m, key, value) ==
    {e \in m : e.key # key} \cup {[key |-> key, val |-> value]}

\* for _, resourceObjs := range results { objs = append(objs, resourceObjs...) }
MapValues(m) == UNION {e.val : e \in m}

Top == stack[Len(stack)]
SetTop(f) == [stack EXCEPT ![Len(stack)] = f]

Frame(fn, obj) ==
    [fn |-> fn, obj |-> obj, pc |-> "entry", n |-> Nil, objs |-> {},
     herr |-> NoErr, todo |-> {}, cur |-> Nil]

NoCall == [fn |-> "none", obj |-> Nil, objs |-> {}, node |-> Nil,
           err |-> NoErr, cause |-> "none"]

Init ==
    /\ cluster \in Clusters
    /\ root \in Ids
    /\ phase = "init"
    /\ stack = <<>>
    /\ ret = [node |-> Nil, err |-> NoErr]
    /\ last = NoCall
    /\ nodes = {}
    /\ edges = {}
    /\ hpc = "idle"
    /\ gi = 0
    /\ ai = 0
    /\ task = [t \in TaskIds |-> NoTask]
    /\ lock = [g \in Groups |-> Free]
    /\ results = [g \in Groups |-> {}]
    /\ wg = 0
    /\ objs = {}
    /\ faults = 0

\* ------------------------------------------------------------ the harvest

Harvesting(fn) ==
    /\ phase = "running"
    /\ Len(stack) > 0
    /\ Top.fn = fn
    /\ Top.pc = "harvest"

\* the harvest returns (objs, err) to the resolver that called it
HarvestReturns(found, err) ==
    /\ stack' = SetTop([Top EXCEPT !.pc = "scan", !.objs = found, !.herr = err])
    /\ hpc' = "idle"

\* getAllObjects, lines 167-171: the catalog query
getAllObjects_Discovery ==
    /\ Harvesting("Application")
    /\ hpc = "discovery"
    /\ \/ /\ faults < MaxFaults
          /\ faults' = faults + 1
          /\ HarvestReturns({}, DiscoveryFailure)
          /\ UNCHANGED <<gi, ai, objs>>
       \/ /\ hpc' = "spawn"
          /\ gi' = 1
          /\ ai' = 1
          /\ objs' = {}
          /\ UNCHANGED <<stack, faults>>
    /\ UNCHANGED <<inputVars, graphVars, phase, ret, last, task, lock, results, wg>>

\* getAllObjects_Spawn, had the Event kind not been skipped
getAllObjects_Spawn_WithEvents ==
    /\ Harvesting("Application")
    /\ hpc = "spawn"
    /\ ai <= Len(Catalog[gi].apis)
    /\ LET api == Catalog[gi].apis[ai]
           gvr == WithResource(GroupVersion(Catalog[gi].groupVersion), api.name)
       IN  /\ wg' = wg + 1
           /\ task' = [task EXCEPT ![<<gi, ai>>] =
                          [pc |-> "spawned", gvr |-> gvr,
                           err |-> FALSE, res |-> {}]]
    /\ ai' = ai + 1
    /\ UNCHANGED <<inputVars, graphVars, phase, stack, ret, last,
                   hpc, gi, lock, results, objs, faults>>

\* getAllObjects, lines 176-185: one turn of the inner loop
getAllObjects_Spawn ==
    /\ Harvesting("Application")
    /\ hpc = "spawn"
    /\ ai <= Len(Catalog[gi].apis)
    /\ LET api == Catalog[gi].apis[ai]
           gvr == WithResource(GroupVersion(Catalog[gi].groupVersion), api.name)
       IN  IF api.kind = "Event"
           THEN UNCHANGED <<wg, task>>
           ELSE /\ wg' = wg + 1
                /\ task' = [task EXCEPT ![<<gi, ai>>] =
                               [pc |-> "spawned", gvr |-> gvr,
                                err |-> FALSE, res |-> {}]]
    /\ ai' = ai + 1
    /\ UNCHANGED <<inputVars, graphVars, phase, stack, ret, last,
                   hpc, gi, lock, results, objs, faults>>

\* getAllObjects_Wait, had wg.Wait() been left out
getAllObjects_NoWait ==
    /\ Harvesting("Application")
    /\ hpc = "spawn"
    /\ ai > Len(Catalog[gi].apis)
    /\ hpc' = "merge"
    /\ UNCHANGED <<inputVars, graphVars, phase, stack, ret, last,
                   gi, ai, task, lock, results, wg, objs, faults>>

\* getAllObjects, line 186: wg.Wait() lets the caller through at zero
getAllObjects_Wait ==
    /\ Harvesting("Application")
    /\ hpc = "spawn"
    /\ ai > Len(Catalog[gi].apis)
    /\ wg = 0
    /\ hpc' = "merge"
    /\ UNCHANGED <<inputVars, graphVars, phase, stack, ret, last,
                   gi, ai, task, lock, results, wg, objs, faults>>

\* getAllObjects, lines 187-192: merge the entry's results, then the next
\* entry or return
getAllObjects_Merge ==
    /\ Harvesting("Application")
    /\ hpc = "merge"
    /\ LET merged == objs \cup MapValues(results[gi])
       IN  IF gi < Len(Catalog)
           THEN /\ objs' = merged
                /\ gi' = gi + 1
                /\ ai' = 1
                /\ hpc' = "spawn"
                /\ UNCHANGED stack
           ELSE /\ HarvestReturns(merged, NoErr)
                /\ objs' = {}
                /\ UNCHANGED <<gi, ai>>
    /\ UNCHANGED <<inputVars, graphVars, phase, ret, last,
                   task, lock, results, wg, faults>>

\* getObjectsForAResource, line 198: the list call goes out
getObjectsForAResource_List(t) ==
    /\ phase = "running"
    /\ task[t].pc = "spawned"
    /\ task' = [task EXCEPT ![t].pc = "listing"]
    /\ UNCHANGED <<inputVars, graphVars, phase, stack, ret, last,
                   hpc, gi, ai, lock, results, wg, objs, faults>>

\* getObjectsForAResource, lines 198-207: the list call comes back.  The
\* result holds one pointer per listed item: the file imports go-set/v3,
\* which needs a Go release whose loop variable is per iteration, so &obj at
\* line 206 does not alias.
getObjectsForAResource_Listed(t) ==
    /\ phase = "running"
    /\ task[t].pc = "listing"
    /\ \/ /\ faults < MaxFaults
          /\ faults' = faults + 1
          /\ task' = [task EXCEPT ![t].pc = "listed", ![t].err = TRUE,
                                  ![t].res = {}]
       \/ /\ task' = [task EXCEPT ![t].pc = "listed",
                                  ![t].res = ServerList(task[t].gvr)]
          /\ UNCHANGED faults
    /\ UNCHANGED <<inputVars, graphVars, phase, stack, ret, last,
                   hpc, gi, ai, lock, results, wg, objs>>

\* getObjectsForAResource_Lock, had lock.Lock() not waited for the mutex
getObjectsForAResource_NoLock(t) ==
    /\ phase = "running"
    /\ task[t].pc = "listed"
    /\ lock' = [lock EXCEPT ![t[1]] = t]
    /\ task' = [task EXCEPT ![t].pc = "locked"]
    /\ UNCHANGED <<inputVars, graphVars, phase, stack, ret, last,
                   hpc, gi, ai, results, wg, objs, faults>>

\* getObjectsForAResource, lines 200 and 208: lock.Lock()
getObjectsForAResource_Lock(t) ==
    /\ phase = "running"
    /\ task[t].pc = "listed"
    /\ lock[t[1]] = Free
    /\ lock' = [lock EXCEPT ![t[1]] = t]
    /\ task' = [task EXCEPT ![t].pc = "locked"]
    /\ UNCHANGED <<inputVars, graphVars, phase, stack, ret, last,
                   hpc, gi, ai, results, wg, objs, faults>>

\* getObjectsForAResource, lines 201 and 209: results[gvr.String()] = ...
getObjectsForAResource_Write(t) ==
    /\ phase = "running"
    /\ task[t].pc = "locked"
    /\ results' = [results EXCEPT ![t[1]] =
                      MapPut(@, GVRString(task[t].gvr), task[t].res)]
    /\ task' = [task EXCEPT ![t].pc = "written"]
    /\ UNCHANGED <<inputVars, graphVars, phase, stack, ret, last,
                   hpc, gi, ai, lock, wg, objs, faults>>

\* getObjectsForAResource_Unlock, had the return skipped lock.Unlock()
getObjectsForAResource_Unlock_KeepsLock(t) ==
    /\ phase = "running"
    /\ task[t].pc = "written"
    /\ task' = [task EXCEPT ![t].pc = "unlocked"]
    /\ UNCHANGED <<inputVars, graphVars, phase, stack, ret, last,
                   hpc, gi, ai, lock, results, wg, objs, faults>>

\* getObjectsForAResource, line 197: the deferred lock.Unlock()
getObjectsForAResource_Unlock(t) ==
    /\ phase = "running"
    /\ task[t].pc = "written"
    /\ lock' = [lock EXCEPT ![t[1]] = Free]
    /\ task' = [task EXCEPT ![t].pc = "unlocked"]
    /\ UNCHANGED <<inputVars, graphVars, phase, stack, ret, last,
                   hpc, gi, ai, results, wg, objs, faults>>

\* getObjectsForAResource, line 196: the deferred wg.Done(), and the return
getObjectsForAResource_Done(t) ==
    /\ phase = "running"
    /\ task[t].pc = "unlocked"
    /\ wg' = wg - 1
    /\ task' = [task EXCEPT ![t].pc = "done", ![t].res = {}]
    /\ UNCHANGED <<inputVars, graphVars, phase, stack, ret, last,
                   hpc, gi, ai, lock, results, objs, faults>>

\* ------------------------------------------------------------ the graph

\* g.graph.Node(gvk, obj): get or create the node of obj
Node(obj) == nodes \cup {obj}

\* g.graph.Relationship(from, label, to)
Relationship(from, label, to) == edges \cup {<<from, label, to>>}

\* ------------------------------------------------------------ dispatch

\* Unstructured, had it routed an AppProject to the Application resolver
Unstructured_ProjectAsApplication(obj) ==
    CASE cluster[obj].kind = "ApplicationSet" -> "ApplicationSet"
      [] cluster[obj].kind \in {"Application", "AppProject"} -> "Application"
      [] OTHER -> "Node"

\* Unstructured, lines 49-60: the resolver an object's kind selects
Unstructured(obj) ==
    CASE cluster[obj].kind = "ApplicationSet" -> "ApplicationSet"
      [] cluster[obj].kind = "Application" -> "Application"
      [] cluster[obj].kind = "AppProject" -> "AppProject"
      [] OTHER -> "Node"

\* g.graph.Unstructured(obj), the graph's own entry point that the resolvers
\* call for every related object: it hands the object to the dispatcher above
GraphUnstructured(obj) == Unstructured(obj)

Recursive(obj) == GraphUnstructured(obj) \in {"Application", "ApplicationSet"}

\* a resolver returns (node, err) to its caller
Return(node, err, cause) ==
    /\ ret' = [node |-> node, err |-> err]
    /\ last' = [fn |-> Top.fn, obj |-> Top.obj, objs |-> Top.objs,
                node |-> node, err |-> err, cause |-> cause]
    /\ IF Len(stack) = 1
       THEN /\ stack' = <<>>
            /\ phase' = "returned"
       ELSE /\ stack' = SubSeq(stack, 1, Len(stack) - 1)
            /\ UNCHANGED phase

\* the caller hands the root object to the dispatcher
Resolve ==
    /\ phase = "init"
    /\ IF Recursive(root)
       THEN /\ stack' = <<Frame(Unstructured(root), root)>>
            /\ phase' = "running"
            /\ UNCHANGED <<ret, last, graphVars>>
       ELSE /\ nodes' = Node(root)
            /\ ret' = [node |-> root, err |-> NoErr]
            /\ last' = [NoCall EXCEPT !.fn = Unstructured(root), !.obj = root,
                                      !.node = root]
            /\ phase' = "returned"
            /\ UNCHANGED <<stack, edges>>
    /\ UNCHANGED <<inputVars, harvestVars>>

Running(fn, pc) ==
    /\ phase = "running"
    /\ Len(stack) > 0
    /\ Top.fn = fn
    /\ Top.pc = pc

\* a fresh WaitGroup, mutexes and results maps; no task of this harvest yet
FreshHarvest ==
    /\ task' = [t \in TaskIds |-> NoTask]
    /\ lock' = [g \in Groups |-> Free]
    /\ results' = [g \in Groups |-> {}]
    /\ wg' = 0

\* ------------------------------------------------------------ Application

\* lines 87-88: the tracking-id annotation names the application
TrackedByAnnotation(obj, app) ==
    \E trackingID \in cluster[obj].ann :
        HasPrefix(trackingID, TrackingPrefix(cluster[app].name))

\* lines 96-97: the instance label names the application
TrackedByLabel(obj, app) ==
    \E trackingLabel \in cluster[obj].lbl : trackingLabel = cluster[app].name

\* Tracked, had the label been looked at only under a matching annotation
Tracked_BothSignals(found, app) ==
    {obj \in found : TrackedByAnnotation(obj, app) /\ TrackedByLabel(obj, app)}

\* lines 86-103: what pass 1 inserts into children
Tracked(found, app) ==
    {obj \in found : TrackedByAnnotation(obj, app) \/ TrackedByLabel(obj, app)}

\* Namespaces, had the namespace of a cluster-scoped object been recorded too
Namespaces_WithEmpty(found, app) ==
    {cluster[obj].ns : obj \in Tracked(found, app)}

\* lines 90-92 and 99-101: the namespaces pass 1 records
Namespaces(found, app) ==
    {cluster[obj].ns : obj \in {o \in Tracked(found, app) : Len(cluster[o].ns) > 0}}

\* Children, had the second pass been left out
Children_NoClosure(found, app) == Tracked(found, app)

\* lines 106-110: pass 2 adds what lives in a recorded namespace
Children(found, app) ==
    Tracked(found, app)
        \cup {obj \in found : cluster[obj].ns \in Namespaces(found, app)}

\* lines 77-78: the AppProject objects spec.project names
Projects(found, projName) ==
    {obj \in found : /\ cluster[obj].kind = "AppProject"
                     /\ cluster[obj].apiVersion = ArgoAPIVersion
                     /\ cluster[obj].name = projName}

\* line 67: both type assertions succeed
WellFormed(app) == cluster[app].project.present /\ cluster[app].project.isString

\* Application, lines 64-69: the node, spec.project, and the call of
\* getAllObjects; a failed type assertion panics
Application_Entry ==
    /\ Running("Application", "entry")
    /\ nodes' = Node(Top.obj)
    /\ IF WellFormed(Top.obj)
       THEN /\ stack' = SetTop([Top EXCEPT !.n = Top.obj, !.pc = "harvest"])
            /\ hpc' = "discovery"
            /\ FreshHarvest
            /\ UNCHANGED phase
       ELSE /\ stack' = SetTop([Top EXCEPT !.n = Top.obj])
            /\ phase' = "panicked"
            /\ UNCHANGED <<hpc, task, lock, results, wg>>
    /\ UNCHANGED <<inputVars, ret, last, edges, gi, ai, objs, faults>>

\* Application_Scan, had the error of getAllObjects been ignored
Application_Scan_IgnoringError ==
    /\ Running("Application", "scan")
    /\ LET projs == Projects(Top.objs, cluster[Top.obj].project.val)
       IN  /\ nodes' = nodes \cup projs
           /\ edges' = edges \cup {<<Top.n, cluster[o].kind, o>> : o \in projs}
           /\ stack' = SetTop([Top EXCEPT !.pc = "children",
                                          !.todo = Children(Top.objs, Top.obj)])
           /\ UNCHANGED <<phase, ret, last>>
    /\ UNCHANGED <<inputVars, harvestVars>>

\* Application, lines 70-110: the error check and the two passes
Application_Scan ==
    /\ Running("Application", "scan")
    /\ IF Top.herr # NoErr
       THEN /\ Return(Nil, Top.herr, "harvest")
            /\ UNCHANGED graphVars
       ELSE LET projs == Projects(Top.objs, cluster[Top.obj].project.val)
            IN  /\ nodes' = nodes \cup projs
                /\ edges' = edges \cup {<<Top.n, cluster[o].kind, o>> : o \in projs}
                /\ stack' = SetTop([Top EXCEPT !.pc = "children",
                                               !.todo = Children(Top.objs, Top.obj)])
                /\ UNCHANGED <<phase, ret, last>>
    /\ UNCHANGED <<inputVars, harvestVars>>

\* a resolver calls g.graph.Unstructured(child): a resolver of its own for an
\* Application or ApplicationSet, a plain node for the rest
CallChild(item, child) ==
    IF Recursive(child)
    THEN IF Len(stack) < MaxDepth
         THEN /\ stack' = Append(SetTop([Top EXCEPT !.pc = "call", !.cur = item]),
                                 Frame(GraphUnstructured(child), child))
              /\ UNCHANGED <<phase, graphVars>>
         ELSE /\ phase' = "overflow"
              /\ UNCHANGED <<stack, graphVars>>
    ELSE /\ nodes' = Node(child)
         /\ edges' = Relationship(Top.n, cluster[child].kind, child)
         /\ stack' = SetTop([Top EXCEPT !.todo = @ \ {item}])
         /\ UNCHANGED phase

\* Application, lines 111-117: one turn of the loop over children.Slice()
Application_Child ==
    /\ Running("Application", "children")
    /\ \E child \in Top.todo : CallChild(child, child)
    /\ UNCHANGED <<inputVars, ret, last, harvestVars>>

\* Application, lines 112-116: the child's resolver has returned
Application_ChildReturned ==
    /\ Running("Application", "call")
    /\ IF ret.err # NoErr
       THEN /\ Return(Top.n, ret.err, "child")
            /\ UNCHANGED graphVars
       ELSE /\ edges' = Relationship(Top.n, cluster[Top.cur].kind, ret.node)
            /\ stack' = SetTop([Top EXCEPT !.pc = "children", !.todo = @ \ {Top.cur},
                                           !.cur = Nil])
            /\ UNCHANGED <<phase, ret, last, nodes>>
    /\ UNCHANGED <<inputVars, harvestVars>>

\* Application, line 118
Application_Return ==
    /\ Running("Application", "children")
    /\ Top.todo = {}
    /\ Return(Top.n, NoErr, "none")
    /\ UNCHANGED <<inputVars, graphVars, harvestVars>>

\* ------------------------------------------------------------ ApplicationSet

ApplicationsGVR == [group |-> <<"argoproj.io">>, version |-> <<"v1alpha1">>,
                    resource |-> "applications"]

\* the invocation of getObjectsForAResource that getChildApplications makes
\* on its own goroutine
OwnTask == <<0, 1>>

\* ApplicationSet, line 123, and getChildApplications, lines 150-155
ApplicationSet_Entry ==
    /\ Running("ApplicationSet", "entry")
    /\ stack' = SetTop([Top EXCEPT !.pc = "harvest"])
    /\ hpc' = "call"
    /\ task' = [t \in TaskIds |->
                   IF t = OwnTask
                   THEN [pc |-> "spawned", gvr |-> ApplicationsGVR,
                         err |-> FALSE, res |-> {}]
                   ELSE NoTask]
    /\ lock' = [g \in Groups |-> Free]
    /\ results' = [g \in Groups |-> {}]
    /\ wg' = 1
    /\ UNCHANGED <<inputVars, graphVars, phase, ret, last, gi, ai, objs, faults>>

\* getChildApplications, lines 156-163: the error of the list call is
\* returned, else wg.Wait() and the merge
getChildApplications_Return ==
    /\ Harvesting("ApplicationSet")
    /\ hpc = "call"
    /\ task[OwnTask].pc = "done"
    /\ IF task[OwnTask].err
       THEN HarvestReturns({}, ListFailure)
       ELSE /\ wg = 0
            /\ HarvestReturns(MapValues(results[0]), NoErr)
    /\ UNCHANGED <<inputVars, graphVars, phase, ret, last,
                   gi, ai, task, lock, results, wg, objs, faults>>

\* OwnedBy, had only the first owner reference been compared
OwnedBy_FirstReference(found, appset) ==
    {<<obj, 1>> : obj \in {o \in found :
        /\ Len(cluster[o].owners) > 0
        /\ cluster[o].owners[1] = cluster[appset].uid}}

\* lines 128-131: one entry per owner reference that carries the set's UID
OwnedBy(found, appset) ==
    {<<obj, i>> : obj \in found, i \in 1..2} \cap
    {item \in Ids \X (1..2) :
        /\ item[2] <= Len(cluster[item[1]].owners)
        /\ cluster[item[1]].owners[item[2]] = cluster[appset].uid}

\* ApplicationSet, lines 124-131: the error check, the node and the matches
ApplicationSet_Scan ==
    /\ Running("ApplicationSet", "scan")
    /\ IF Top.herr # NoErr
       THEN /\ Return(Nil, Top.herr, "harvest")
            /\ UNCHANGED graphVars
       ELSE /\ nodes' = Node(Top.obj)
            /\ stack' = SetTop([Top EXCEPT !.pc = "children", !.n = Top.obj,
                                           !.todo = OwnedBy(Top.objs, Top.obj)])
            /\ UNCHANGED <<phase, ret, last, edges>>
    /\ UNCHANGED <<inputVars, harvestVars>>

\* ApplicationSet, line 132: one matching owner reference
ApplicationSet_Child ==
    /\ Running("ApplicationSet", "children")
    /\ \E item \in Top.todo : CallChild(item, item[1])
    /\ UNCHANGED <<inputVars, ret, last, harvestVars>>

\* ApplicationSet, lines 133-136: the child's resolver has returned
ApplicationSet_ChildReturned ==
    /\ Running("ApplicationSet", "call")
    /\ IF ret.err # NoErr
       THEN /\ Return(Nil, ret.err, "child")
            /\ UNCHANGED graphVars
       ELSE /\ edges' = Relationship(Top.n, cluster[Top.cur[1]].kind, ret.node)
            /\ stack' = SetTop([Top EXCEPT !.pc = "children", !.todo = @ \ {Top.cur},
                                           !.cur = Nil])
            /\ UNCHANGED <<phase, ret, last, nodes>>
    /\ UNCHANGED <<inputVars, harvestVars>>

\* ApplicationSet, line 140
ApplicationSet_Return ==
    /\ Running("ApplicationSet", "children")
    /\ Top.todo = {}
    /\ Return(Top.n, NoErr, "none")
    /\ UNCHANGED <<inputVars, graphVars, harvestVars>>

\* ------------------------------------------------------------ specification

getObjectsForAResource ==
    \E t \in TaskIds :
        \/ getObjectsForAResource_List(t)
        \/ getObjectsForAResource_Listed(t)
        \/ getObjectsForAResource_Lock(t)
        \/ getObjectsForAResource_Write(t)
        \/ getObjectsForAResource_Unlock(t)
        \/ getObjectsForAResource_Done(t)

Next ==
    \/ Resolve
    \/ Application_Entry
    \/ getAllObjects_Discovery
    \/ getAllObjects_Spawn
    \/ getAllObjects_Wait
    \/ getAllObjects_Merge
    \/ getObjectsForAResource
    \/ Application_Scan
    \/ Application_Child
    \/ Application_ChildReturned
    \/ Application_Return
    \/ ApplicationSet_Entry
    \/ getChildApplications_Return
    \/ ApplicationSet_Scan
    \/ ApplicationSet_Child
    \/ ApplicationSet_ChildReturned
    \/ ApplicationSet_Return

Spec == Init /\ [][Next]_vars

\* the steps of the goroutine that runs getObjectsForAResource for task t
Task(t) ==
    \/ getObjectsForAResource_List(t)
    \/ getObjectsForAResource_Listed(t)
    \/ getObjectsForAResource_Lock(t)
    \/ getObjectsForAResource_Write(t)
    \/ getObjectsForAResource_Unlock(t)
    \/ getObjectsForAResource_Done(t)

\* the steps of the goroutine that called the dispatcher
Caller ==
    \/ Resolve
    \/ Application_Entry
    \/ getAllObjects_Discovery
    \/ getAllObjects_Spawn
    \/ getAllObjects_Wait
    \/ getAllObjects_Merge
    \/ Application_Scan
    \/ Application_Child
    \/ Application_ChildReturned
    \/ Application_Return
    \/ ApplicationSet_Entry
    \/ getChildApplications_Return
    \/ ApplicationSet_Scan
    \/ ApplicationSet_Child
    \/ ApplicationSet_ChildReturned
    \/ ApplicationSet_Return

\* the Go scheduler runs every goroutine that stays runnable, and a List call
\* returns: neither the caller nor a task is held up forever while it can step
FairSpec ==
    /\ Spec
    /\ WF_vars(Caller)
    /\ \A t \in TaskIds : WF_vars(Task(t))

\* ------------------------------------------------------------ properties

\* obj carries a tracking-id annotation that starts with "<app's name>:"
AnnotationNames(obj, app) ==
    \E v \in cluster[obj].ann :
        /\ Len(v) > Len(cluster[app].name)
        /\ \A i \in 1..Len(cluster[app].name) : v[i] = cluster[app].name[i]
        /\ v[Len(cluster[app].name) + 1] = ":"

\* obj carries an instance label equal to app's name
LabelNames(obj, app) == cluster[app].name \in cluster[obj].lbl

SignalMatched(obj, app) == AnnotationNames(obj, app) \/ LabelNames(obj, app)

\* the last call that returned was a resolve of an Application without error
ApplicationResolved == last.fn = "Application" /\ last.err = NoErr

\* the graph holds the edge parent -> child labelled with the child's kind
HasEdge(parent, child) ==
    /\ child \in nodes
    /\ <<parent, cluster[child].kind, child>> \in edges

\* C1: once the resolve of Application A has returned without error, every
\* object of the universe it harvested whose tracking-id annotation starts
\* with "<A's name>:", or whose instance label equals A's name, has an edge
\* from A's node to its own node, labelled with its kind.
C1_SignalMatchedAreChildren ==
    ApplicationResolved =>
        \A obj \in last.objs :
            SignalMatched(obj, last.obj) => HasEdge(last.obj, obj)

\* C1's case: a resolved Application with a child matched by the annotation
\* alone (no instance label on it)
C1_Witness ==
    /\ ApplicationResolved
    /\ \E obj \in last.objs :
          /\ AnnotationNames(obj, last.obj)
          /\ cluster[obj].lbl = {}
          /\ HasEdge(last.obj, obj)

\* C2: once the resolve of Application A has returned without error, every
\* object of the harvested universe that lives in the namespace of a
\* signal-matched object has an edge from A labelled with its kind, whether
\* or not it carries a signal itself.
C2_NamespaceClosure ==
    ApplicationResolved =>
        \A matched \in last.objs : \A obj \in last.objs :
            ( /\ SignalMatched(matched, last.obj)
              /\ Len(cluster[matched].ns) > 0
              /\ cluster[obj].ns = cluster[matched].ns )
            => HasEdge(last.obj, obj)

\* C2's case: a child that carries neither annotation nor label and shares
\* the namespace of a signal-matched one
C2_Witness ==
    /\ ApplicationResolved
    /\ \E matched \in last.objs : \E obj \in last.objs :
          /\ SignalMatched(matched, last.obj)
          /\ obj # matched
          /\ cluster[obj].ann = {} /\ cluster[obj].lbl = {}
          /\ Len(cluster[obj].ns) > 0
          /\ cluster[obj].ns = cluster[matched].ns
          /\ HasEdge(last.obj, obj)

\* the Applications of the cluster with an owner reference to appset
OwnedApplications(appset) ==
    {obj \in Ids :
        /\ cluster[obj].kind = "Application"
        /\ \E i \in 1..Len(cluster[obj].owners) :
              cluster[obj].owners[i] = cluster[appset].uid}

\* C3: once the resolve of ApplicationSet S has returned without error, the
\* edges that leave S's node are exactly one per Application that has an
\* owner reference with S's UID, labelled with its kind; an Application
\* that only carries S's name as label or annotation has none.
C3_ApplicationSetChildren ==
    (last.fn = "ApplicationSet" /\ last.err = NoErr) =>
        {e \in edges : e[1] = last.obj}
            = {<<last.obj, cluster[obj].kind, obj>> : obj \in OwnedApplications(last.obj)}

\* C3's case: S has a child by owner reference while another Application
\* carries S's name as its instance label and is not owned
C3_Witness ==
    /\ last.fn = "ApplicationSet" /\ last.err = NoErr
    /\ \E owned \in OwnedApplications(last.obj) : HasEdge(last.obj, owned)
    /\ \E other \in Ids \ OwnedApplications(last.obj) :
          /\ cluster[other].kind = "Application"
          /\ LabelNames(other, last.obj)
          /\ ~HasEdge(last.obj, other)

\* C4: a failed list call leaves its resource type without objects and
\* never surfaces: no resolver, Application or ApplicationSet, returns the
\* error of a list call.  (getChildApplications returns it.)
C4_ListFailureAbsorbed ==
    /\ \A t \in TaskIds : task[t].err => task[t].res = {}
    /\ last.err # ListFailure
    /\ ret.err # ListFailure

\* C5: resolve always returns: the nesting of resolver calls stays within
\* the objects there are to resolve, and the run never ends by exhausting
\* the stack.  MaxDepth is no less than the number of Applications and
\* ApplicationSets a call chain can hold without repeating one, so a deeper
\* call is a resolver entered again for an object it is already resolving,
\* against the same cluster.
C5_ResolveReturns == phase # "overflow"

\* C6: an Application whose harvest failed returns the catalog's error
\* together with its own node.
C6_HarvestErrorKeepsNode ==
    (last.fn = "Application" /\ last.cause = "harvest") =>
        /\ last.err = DiscoveryFailure
        /\ last.node = last.obj

\* C7: a resolver whose child failed to resolve returns the child's error
\* together with its own node, Application and ApplicationSet alike.
C7_ChildErrorKeepsNode ==
    last.cause = "child" =>
        /\ last.err # NoErr
        /\ last.node = last.obj

\* C8: an Application whose spec.project is missing or no string is never
\* harvested for and its resolve does not panic: it ends in a returned error.
C8_MalformedSpecIsReturned ==
    /\ phase # "panicked"
    /\ \A i \in 1..Len(stack) :
          (stack[i].fn = "Application" /\ ~WellFormed(stack[i].obj))
          => stack[i].pc = "entry"
    /\ (last.fn = "Application" /\ ~WellFormed(last.obj)) => last.err # NoErr

Finished(t) == task[t].pc \in {"none", "done"}

\* the resources of catalog entry g that a harvest lists
Listed(g) == {i \in 1..Len(Catalog[g].apis) : Catalog[g].apis[i].kind # "Event"}

\* C9: the harvester merges a results map only when every task that writes
\* into it has been started and has completed, and once the harvest has
\* returned no task of it is outstanding; a harvest that returns without
\* error has run one task to completion for every resource it lists.
C9_CompletionBarrier ==
    /\ hpc = "merge" =>
          \A i \in Listed(gi) : task[<<gi, i>>].pc = "done"
    /\ hpc = "idle" => \A t \in TaskIds : Finished(t)
    /\ (Running("Application", "scan") /\ Top.herr = NoErr) =>
          \A g \in 1..Len(Catalog) : \A i \in Listed(g) :
              task[<<g, i>>].pc = "done"
    /\ (Running("ApplicationSet", "scan") /\ Top.herr = NoErr) =>
          task[OwnTask].pc = "done"

\* C9's case: the merge of an entry two tasks have written into, one of
\* them after a failed list call
C9_Witness ==
    /\ hpc = "merge"
    /\ Cardinality(Listed(gi)) > 1
    /\ \E t \in TaskIds : t[1] = gi /\ task[t].err
    /\ Cardinality(results[gi]) = Cardinality(Listed(gi))

Registering(t) == task[t].pc \in {"locked", "written"}

\* C10: a task writes into the results map only while it holds the map's
\* mutex, so no two tasks register at once, and a task whose list call has
\* not yet returned holds no mutex.
C10_LockDiscipline ==
    /\ \A t \in TaskIds : Registering(t) => lock[t[1]] = t
    /\ \A t \in TaskIds : \A u \in TaskIds :
          (Registering(t) /\ Registering(u)) => t = u
    /\ \A t \in TaskIds :
          task[t].pc \in {"spawned", "listing", "listed"} => lock[t[1]] # t
    /\ \A g \in Groups : lock[g] # Free => Registering(lock[g])

\* C10's case: one task registers the empty result of a failed list call
\* while the list call of another task of the same entry is in flight
C10_Witness ==
    \E t \in TaskIds : \E u \in TaskIds :
        /\ t[1] = u[1]
        /\ task[t].pc = "written" /\ task[t].err
        /\ task[u].pc = "listing"

\* the objects a harvest can return: those served under a listed resource
Harvestable ==
    {obj \in Ids : \E g \in 1..Len(Catalog) : \E i \in Listed(g) :
        /\ Catalog[g].groupVersion = cluster[obj].apiVersion
        /\ Catalog[g].apis[i].kind = cluster[obj].kind}

\* obj is the project spec.project names
NamedProject(obj, app) ==
    /\ cluster[obj].kind = "AppProject"
    /\ cluster[app].project.isString
    /\ cluster[obj].name = cluster[app].project.val

\* obj is related to app within universe: the named project, signal-matched,
\* or in the non-empty namespace of a signal-matched object of the universe
Related(obj, app, universe) ==
    \/ NamedProject(obj, app)
    \/ SignalMatched(obj, app)
    \/ \E matched \in universe :
          /\ SignalMatched(matched, app)
          /\ Len(cluster[matched].ns) > 0
          /\ cluster[obj].ns = cluster[matched].ns

EdgesFrom(parent) == {e \in edges : e[1] = parent}

\* the cluster of the scenario app1 / proj1 / cm1 / sec1
LabelScenario == cluster = Cluster([Base EXCEPT !.cm1Lbl = {NameA}])

\* C11: the edges of a resolved Application A are exact.  Every harvested
\* object that is the project spec.project names, is signal-matched, or
\* shares its non-empty namespace with a signal-matched harvested object has
\* an edge from A; every edge from A is labelled with its target's kind and
\* leads to such an object of what a harvest can return (a cluster-scoped
\* match adds no neighbour, an Event none at all).  In the scenario
\* app1/proj1/cm1/sec1, with nothing failing, these are exactly three
\* edges: to the project, the ConfigMap and the Secret, labelled by kind
\* (the project's kind string is AppProject).
C11_ExactEdges ==
    ApplicationResolved =>
        /\ \A obj \in last.objs :
              Related(obj, last.obj, last.objs) => HasEdge(last.obj, obj)
        /\ \A e \in EdgesFrom(last.obj) :
              /\ e[3] \in Harvestable
              /\ e[2] = cluster[e[3]].kind
              /\ Related(e[3], last.obj, Harvestable)
        /\ (LabelScenario /\ last.obj = "a" /\ last.objs = Harvestable) =>
              EdgesFrom("a") = {<<"a", "AppProject", "p">>,
                                <<"a", "ConfigMap", "cm1">>,
                                <<"a", "Secret", "sec1">>}

\* C11's case: the scenario resolved with nothing failing: three edges, one
\* of them to the Secret that carries no signal, none to the labelled Event
C11_Witness ==
    /\ ApplicationResolved
    /\ LabelScenario /\ last.obj = "a" /\ last.objs = Harvestable
    /\ Cardinality(EdgesFrom("a")) = 3
    /\ HasEdge("a", "sec1")
    /\ SignalMatched("ev1", "a") /\ ~HasEdge("a", "ev1")

NoTaskSpawned == wg = 0 /\ \A t \in TaskIds : task[t].pc = "none"

\* an Application call whose catalog query is about to run, or has failed
QueryingCatalog == Harvesting("Application") /\ hpc = "discovery"
CatalogFailed ==
    phase = "running" /\ Top.fn = "Application" /\ Top.herr = DiscoveryFailure

\* C12: when the catalog query of an Application call fails, the call is
\* aborted with that error.  No list task exists when the query runs or
\* after it failed, the step that fails and the step that returns leave the
\* graph alone, the call returns DiscoveryFailure without spawning, and the
\* root Application is left without any outgoing edge.
C12_CatalogFailureAborts ==
    [][ /\ QueryingCatalog => NoTaskSpawned
        /\ (QueryingCatalog /\ hpc' = "idle") =>
              /\ Top'.herr = DiscoveryFailure
              /\ NoTaskSpawned'
              /\ UNCHANGED graphVars
        /\ CatalogFailed =>
              /\ NoTaskSpawned /\ NoTaskSpawned'
              /\ UNCHANGED graphVars
              /\ ret'.err = DiscoveryFailure
              /\ last'.fn = "Application" /\ last'.obj = Top.obj
              /\ Len(stack') = Len(stack) - 1
              /\ Len(stack) = 1 => EdgesFrom(Top.obj) = {} ]_vars

\* C12's case: the root Application returned the catalog failure
C12_Witness ==
    /\ phase = "returned"
    /\ last.fn = "Application" /\ last.obj = root
    /\ last.cause = "harvest" /\ ret.err = DiscoveryFailure
    /\ NoTaskSpawned
    /\ EdgesFrom(root) = {}

\* an object of kind AppProject, or of a kind the dispatcher has no case for
LeafKind(obj) == cluster[obj].kind \notin {"Application", "ApplicationSet"}

\* C13: resolving an AppProject or an object of any other kind than
\* Application and ApplicationSet always succeeds, starts no harvest and
\* adds no outgoing edge.  Such an object never has an edge leaving it and
\* never a resolver frame; the step that adds its node touches no harvest
\* state and raises no panic; as the root it returns its node with a nil
\* error in one step, the graph holding that node alone.
C13_LeafResolution ==
    [][ /\ \A obj \in Ids : LeafKind(obj) => EdgesFrom(obj) = {}
        /\ \A i \in 1..Len(stack) : ~LeafKind(stack[i].obj)
        /\ (\E obj \in nodes' \ nodes : LeafKind(obj)) =>
              /\ UNCHANGED harvestVars
              /\ phase' \notin {"panicked", "overflow"}
        /\ (LeafKind(root) /\ phase = "init") =>
              /\ phase' = "returned"
              /\ ret' = [node |-> root, err |-> NoErr]
              /\ nodes' = {root} /\ edges' = {}
              /\ hpc' = "idle" /\ NoTaskSpawned' /\ faults' = 0 ]_vars

\* C13's case: a project came through the dispatcher as the root
C13_Witness ==
    /\ phase = "returned" /\ cluster[root].kind = "AppProject"
    /\ last.fn = "AppProject" /\ ret.err = NoErr /\ nodes = {root}
    /\ EdgesFrom(root) = {} /\ NoTaskSpawned

\* the same for a ConfigMap reached as the child of an Application
C13_ChildWitness ==
    /\ phase = "returned" /\ cluster[root].kind = "Application"
    /\ HasEdge(root, "cm1") /\ HasEdge(root, "p")
    /\ EdgesFrom("cm1") = {} /\ EdgesFrom("p") = {}

\* C14: pass 1 is an exclusive chain for projects: an AppProject is linked to
\* the Application only through the spec.project name match and never enters
\* children through the annotation or the label, so a cluster-scoped
\* AppProject whose name differs from spec.project has no edge from a
\* resolved Application, whatever annotation or label it carries.
C14_ProjectOnlyByName ==
    ApplicationResolved =>
        \A obj \in last.objs :
            ( /\ cluster[obj].kind = "AppProject"
              /\ Len(cluster[obj].ns) = 0
              /\ ~NamedProject(obj, last.obj) )
            => ~HasEdge(last.obj, obj)

\* the tasks getAllObjects can start: one per resource of the catalog
CatalogTasks == {t \in TaskIds : t[1] >= 1}
EventTasks == {t \in CatalogTasks : Catalog[t[1]].apis[t[2]].kind = "Event"}

\* C15: within the harvest of an Application call no list is issued for a
\* resource of kind Event, every other resource of the catalog is listed
\* exactly once, and the catalog is queried exactly once.  The task of an
\* Event resource never leaves "none"; a task is started only from "none",
\* issues its list only when freshly started, and goes back to "none" only
\* when a new call begins; a harvest returning without error has every
\* other task done; the catalog query is entered only from the entry of an
\* Application call and never again from the loops that follow it.
C15_OneListPerResource ==
    [][ /\ \A t \in EventTasks : task[t].pc = "none" /\ task'[t].pc = "none"
        /\ \A t \in CatalogTasks :
              /\ (task'[t].pc = "spawned" /\ task[t].pc # "spawned") =>
                    task[t].pc = "none" /\ t = <<gi, ai>>
              /\ (task'[t].pc = "listing" /\ task[t].pc # "listing") =>
                    task[t].pc = "spawned"
              /\ (task'[t].pc = "none" /\ task[t].pc # "none") =>
                    Top.pc = "entry"
        /\ (Harvesting("Application") /\ Top'.pc = "scan" /\ Top'.herr = NoErr) =>
              \A t \in CatalogTasks \ EventTasks : task'[t].pc = "done"
        /\ (hpc' = "discovery" /\ hpc # "discovery") =>
              Running("Application", "entry")
        /\ hpc = "discovery" => hpc' \in {"spawn", "idle"}
        /\ hpc \in {"spawn", "merge"} => hpc' # "discovery" ]_vars

\* C15's case: a harvest over a catalog with an Event resource returned:
\* the configmaps, secrets, applications and appprojects tasks are done, the
\* events task was never started
C15_Witness ==
    /\ Running("Application", "scan") /\ Top.herr = NoErr
    /\ EventTasks # {}
    /\ \A t \in EventTasks : task[t].pc = "none"
    /\ \A t \in CatalogTasks \ EventTasks : task[t].pc = "done"
    /\ "ev1" \notin Top.objs

\* the harvester stands at wg.Wait()
AtBarrier ==
    Harvesting("Application") /\ hpc = "spawn" /\ ai > Len(Catalog[gi].apis)

\* a task that has been started and has not yet signalled completion
InFlight(t) == task[t].pc \notin {"none", "done"}

\* C16: the fan-out spans the entire catalog: every task of the harvest has
\* been started by the time the harvester waits on the barrier, so that
\* lists of resources of different catalog entries can be in flight together.
C16_FanOutSpansCatalog ==
    AtBarrier => \A t \in CatalogTasks \ EventTasks : task[t].pc # "none"

\* what the code does instead: the tasks in flight at any moment all belong
\* to the catalog entry the harvester is working on
EntryAtATime ==
    \A t \in CatalogTasks : InFlight(t) => Harvesting("Application") /\ t[1] = gi

\* the resource task t of the catalog lists, and the slot it owns
TaskGVR(t) ==
    WithResource(GroupVersion(Catalog[t[1]].groupVersion),
                 Catalog[t[1]].apis[t[2]].name)
Slot(t) ==
    [key |-> GVRString(TaskGVR(t)),
     val |-> IF task[t].err THEN {} ELSE ServerList(TaskGVR(t))]

\* the tasks a harvest has started for catalog entry g
Spawned(g) == {t \in CatalogTasks : t[1] = g /\ task[t].pc # "none"}

Keys(m) == {e.key : e \in m}

\* C17: each task writes only its own slot.  A write adds one slot under a
\* key no task has written before and changes nothing else; when the barrier
\* has released, the results map holds exactly one slot per started task,
\* empty for a failed list and the listed objects for a successful one; the
\* universe a harvest returns is exactly the union of the successful lists.
C17_OwnSlots ==
    [][ /\ \A t \in CatalogTasks :
              (task[t].pc = "locked" /\ task'[t].pc = "written") =>
                 /\ Slot(t).key \notin Keys(results[t[1]])
                 /\ results' = [results EXCEPT ![t[1]] = @ \cup {Slot(t)}]
        /\ (Harvesting("Application") /\ hpc = "merge") =>
              /\ results[gi] = {Slot(t) : t \in Spawned(gi)}
              /\ Cardinality(results[gi]) = Cardinality(Spawned(gi))
              /\ Spawned(gi) = {<<gi, i>> : i \in Listed(gi)}
        /\ (Harvesting("Application") /\ Top'.pc = "scan" /\ Top'.herr = NoErr) =>
              Top'.objs = UNION {ServerList(TaskGVR(t)) :
                                   t \in {u \in CatalogTasks \ EventTasks :
                                             ~task'[u].err}} ]_vars

\* C17's case: the barrier of the first entry released with one list failed
\* and one successful: two slots, one empty, one holding the listed object
C17_Witness ==
    /\ Harvesting("Application") /\ hpc = "merge" /\ gi = 1
    /\ Cardinality(results[gi]) = 2
    /\ \E e \in results[gi] : e.val = {}
    /\ \E e \in results[gi] : e.val # {}
    /\ \E t \in Spawned(gi) : task[t].err

AllLocksFree == \A g \in Groups : lock[g] = Free

\* the step of task t that moves it from one position to the next
Moves(t, from, to) == task[t].pc = from /\ task'[t].pc = to

\* C18: the harvest is deadlock-free.  On every step: a task takes the lock
\* only when free and only after its list call has returned, releases it
\* only while holding it and only after its write, and signals completion
\* only after releasing; a lock changes hands in no other way.  Under weak
\* fairness of the caller and of every task: every started task completes,
\* the harvester standing at the barrier passes it with every lock free, and
\* the single-type harvest of an ApplicationSet, whose task runs on the
\* caller, returns to it with every lock free, whether its list failed or not.
C18_DeadlockFree ==
    /\ [][ \A t \in TaskIds :
              /\ (lock'[t[1]] = t /\ lock[t[1]] # t) =>
                    lock[t[1]] = Free /\ Moves(t, "listed", "locked")
              /\ (lock[t[1]] = t /\ lock'[t[1]] # t) =>
                    lock'[t[1]] = Free /\ Moves(t, "written", "unlocked")
              /\ (task'[t].pc = "locked" /\ task[t].pc # "locked") =>
                    task[t].pc = "listed" /\ lock'[t[1]] = t
              /\ (task'[t].pc = "unlocked" /\ task[t].pc # "unlocked") =>
                    task[t].pc = "written" /\ lock[t[1]] = t
              /\ (task'[t].pc = "done" /\ task[t].pc # "done") =>
                    task[t].pc = "unlocked" /\ lock[t[1]] # t /\ wg' = wg - 1
              /\ task[t].pc \in {"locked", "written"} <=> lock[t[1]] = t ]_vars
    /\ \A t \in TaskIds : (task[t].pc = "spawned") ~> (task[t].pc = "done")
    /\ AtBarrier ~> (hpc = "merge" /\ AllLocksFree)
    /\ (Harvesting("ApplicationSet") /\ hpc = "call") ~>
          (hpc = "idle" /\ AllLocksFree /\ task[OwnTask].pc = "done")

\* C18's case: under an ApplicationSet, whose single-type harvest has
\* returned, the harvester of its Application has passed the barrier of the
\* second catalog entry: all tasks done, one with a failed list, locks free
C18_Witness ==
    /\ Len(stack) = 2 /\ stack[1].fn = "ApplicationSet"
    /\ Harvesting("Application") /\ hpc = "merge" /\ gi = 2
    /\ AllLocksFree /\ wg = 0
    /\ \A t \in CatalogTasks \ EventTasks : task[t].pc = "done"
    /\ \E t \in CatalogTasks : task[t].err

====
